---------------------------- MODULE Spec2Model ----------------------------
(***************************************************************************)
(* Model of the Japanese sentence practice application:                    *)
(*   - evaluateSentenceStream, the streaming response parser               *)
(*     (services/geminiService, src/unnamed/part_004 lines 632-755);       *)
(*   - the history service over localStorage                               *)
(*     (services/historyService, src/unnamed/part_004 lines 207-314);      *)
(*   - App's in-memory history list (src/App.tsx).                         *)
(*                                                                         *)
(* Text is modelled as a sequence of tokens.  A token is one character,    *)
(* except that each of the three field labels "score:", "evaluation:" and  *)
(* "correctedSentence:" is one token (the parser only ever looks for a     *)
(* label as a whole, at the start of a line).                              *)
(***************************************************************************)
EXTENDS Integers, Sequences, FiniteSets, TLC

(***************************************************************************)
(* Bounds of the model.                                                    *)
(***************************************************************************)
\* a stream text is the concatenation of at most MaxPieces pieces
MaxPieces == 3
\* a stream delivers its text in at most MaxChunks non-empty chunks
MaxChunks == 2
\* App performs at most MaxOps history operations after it has loaded
MaxOps == 2
\* an imported array holds at most MaxImported elements
MaxImported == 2
\* the number of task fetches App starts
MaxFetches == 2
\* the number of characters of a header
MaxHeaderLen == 4

(***************************************************************************)
(* Tokens.                                                                 *)
(***************************************************************************)
NL == "\n"
SP == " "
DASH == "-"
SCORE == "score:"
EVAL == "evaluation:"
CORR == "correctedSentence:"
DIGIT7 == "7"
CHA == "a"

Alphabet == {NL, SP, DASH, SCORE, EVAL, CORR, DIGIT7, CHA}

\* const separator = '\n--- \n';
separator == <<NL, DASH, DASH, DASH, SP, NL>>

\* the defaults of the three header fields
DefaultEvaluation == <<"(evaluation not provided)">>
DefaultCorrectedSentence == <<"(AI did not provide a correction.)">>
\* "\n\n**Error:** Failed to get feedback from the AI. Please try again."
ErrorMessage == <<NL, NL, "**Error:** Failed to get feedback from the AI. Please try again.">>

(***************************************************************************)
(* String primitives of JavaScript, on token sequences.                    *)
(***************************************************************************)
\* String.prototype.indexOf: 0-based index of the first occurrence, or -1
IndexOf(s, pat) ==
    LET hits == {i \in 0..(Len(s) - Len(pat)) : SubSeq(s, i + 1, i + Len(pat)) = pat}
    IN  IF hits = {} THEN -1 ELSE CHOOSE i \in hits : \A j \in hits : i <= j

\* String.prototype.substring(from, to) with 0 <= from <= to <= length
Substring(s, from, to) == SubSeq(s, from + 1, to)

\* String.prototype.substring(from)
SubstringFrom(s, from) == SubSeq(s, from + 1, Len(s))

\* \s of a regular expression, and the characters String.prototype.trim strips
IsWhitespace(c) == c \in {SP, NL}

\* \d of a regular expression
IsDigit(c) == c \in {DIGIT7}

DigitValue(c) == 7

\* String.prototype.trim
Trim(s) ==
    LET keep == {i \in 1..Len(s) : ~IsWhitespace(s[i])}
    IN  IF keep = {} THEN <<>>
        ELSE LET lo == CHOOSE i \in keep : \A j \in keep : i <= j
                 hi == CHOOSE i \in keep : \A j \in keep : j <= i
             IN  SubSeq(s, lo, hi)

\* parseInt(digits, 10) of a non-empty run of digits
RECURSIVE ParseInt(_)
ParseInt(ds) ==
    IF ds = <<>> THEN 0
    ELSE 10 * ParseInt(SubSeq(ds, 1, Len(ds) - 1)) + DigitValue(ds[Len(ds)])

\* String.prototype.split('\n')
RECURSIVE SplitLines(_)
SplitLines(s) ==
    LET i == IndexOf(s, <<NL>>)
    IN  IF i = -1 THEN <<s>>
        ELSE <<Substring(s, 0, i)>> \o SplitLines(SubstringFrom(s, i + 1))

\* Array.prototype.join('\n')
RECURSIVE JoinLines(_)
JoinLines(ls) ==
    IF ls = <<>> THEN <<>>
    ELSE IF Len(ls) = 1 THEN ls[1]
    ELSE ls[1] \o <<NL>> \o JoinLines(Tail(ls))

(***************************************************************************)
(* The three regular expressions of the header, all with the m flag:       *)
(* ^ matches at the start of the text and after every line break.          *)
(***************************************************************************)
LineStarts(h) == {i \in 1..Len(h) : i = 1 \/ h[i - 1] = NL}

\* the position after the greedy \s* that starts at position i
SkipWhitespace(h, i) ==
    CHOOSE j \in i..(Len(h) + 1) :
        /\ \A k \in i..(j - 1) : IsWhitespace(h[k])
        /\ j = Len(h) + 1 \/ ~IsWhitespace(h[j])

\* the end of the greedy \d+ that starts at position i (h[i] is a digit)
DigitsEnd(h, i) ==
    CHOOSE j \in i..Len(h) :
        /\ \A k \in i..j : IsDigit(h[k])
        /\ j = Len(h) \/ ~IsDigit(h[j + 1])

\* the end of the greedy .* that starts at position i: . matches no line break
RestOfLineEnd(h, i) ==
    CHOOSE j \in (i - 1)..Len(h) :
        /\ \A k \in i..j : h[k] # NL
        /\ j = Len(h) \/ h[j + 1] = NL

\* header.match(/^score:\s*(\d+)/m): the capture group, or <<>> for no match
scoreMatch(h) ==
    LET at == {i \in LineStarts(h) :
                 /\ h[i] = SCORE
                 /\ SkipWhitespace(h, i + 1) <= Len(h)
                 /\ IsDigit(h[SkipWhitespace(h, i + 1)])}
    IN  IF at = {} THEN <<>>
        ELSE LET i == CHOOSE x \in at : \A y \in at : x <= y
                 d == SkipWhitespace(h, i + 1)
             IN  SubSeq(h, d, DigitsEnd(h, d))

\* header.match(/^<label>\s*(.*)/m): [matched, group]
LabelMatch(h, label) ==
    LET at == {i \in LineStarts(h) : h[i] = label}
    IN  IF at = {} THEN [matched |-> FALSE, group |-> <<>>]
        ELSE LET i == CHOOSE x \in at : \A y \in at : x <= y
                 b == SkipWhitespace(h, i + 1)
             IN  [matched |-> TRUE, group |-> SubSeq(h, b, RestOfLineEnd(h, b))]

\* lines 696-702 and 722-728: the fields handed to onStructuredData
ParseHeader(h) ==
    LET evaluationMatch == LabelMatch(h, EVAL)
        correctedSentenceMatch == LabelMatch(h, CORR)
    IN  [score |-> IF scoreMatch(h) # <<>> THEN ParseInt(scoreMatch(h)) ELSE 0,
         evaluation |-> IF evaluationMatch.matched
                          THEN Trim(evaluationMatch.group) ELSE DefaultEvaluation,
         correctedSentence |-> IF correctedSentenceMatch.matched
                                 THEN Trim(correctedSentenceMatch.group)
                                 ELSE DefaultCorrectedSentence]


(***************************************************************************)
(* State.                                                                  *)
(***************************************************************************)
VARIABLES
    text,           \* the text the model stream is going to deliver
    delivered,      \* the non-empty chunks the for-await loop has received
    buffer,         \* let buffer = ''
    headersParsed,  \* let headersParsed = false
    calls,          \* the callbacks evaluateSentenceStream has invoked, in order
    pc,             \* where evaluateSentenceStream is
    threw,          \* the request or the stream iteration has thrown
    promise,        \* the promise evaluateSentenceStream returned
    streamEndOutcome, \* how the promise of onStreamEnd() settled
    stored,         \* localStorage's entry under HISTORY_KEY
    history,        \* App: const [history, setHistory] = useState([])
    mounted,        \* App's mount effect has run
    now,            \* Date.now()
    serial,         \* the number of ids App has drawn so far
    steps,          \* the number of history operations performed so far
    lastOp,         \* the history operation performed last
    lastArg,        \* its argument
    lastSaved,      \* its localStorage.setItem call, if any, succeeded
    quotaFailed,    \* some localStorage.setItem call has thrown so far
    returned,       \* what mergeAndSaveHistory returned last
    gameState,      \* App: const [gameState, setGameState]
    gameMode,       \* App: const [gameMode, setGameMode]
    currentTask,    \* App: const [currentTask, setCurrentTask]
    mcqTask,        \* App: const [mcqTask, setMcqTask]
    error,          \* App: const [error, setError]
    allGrammarPoints, \* geminiService: let allGrammarPoints = []
    fetches,        \* the calls of handleStartPractice and handleNextPractice
                    \* that are waiting at an await
    started,        \* the number of task fetches started so far
    appOp,          \* the step of App performed last
    afterHome,      \* handleGoHome was the last action of the user
    evalTask,       \* the currentTask in the closure of onComplete
    speech,         \* the generateSpeech call of onStreamEnd
    completions     \* the calls of onComplete, in order

streamVars == <<text, delivered, buffer, headersParsed, calls, pc, threw, promise,
                streamEndOutcome>>

historyVars == <<stored, history, mounted, now, serial, steps, lastOp, lastArg, lastSaved,
                 quotaFailed, returned>>

appVars == <<gameState, gameMode, currentTask, mcqTask, error, allGrammarPoints, fetches,
             started, appOp, afterHome>>

feedbackVars == <<evalTask, speech, completions>>

vars == <<streamVars, historyVars, appVars, feedbackVars>>

\* the callbacks, as entries of calls
StructuredCall(data) == [kind |-> "onStructuredData", data |-> data]
ExplanationCall(chunk) == [kind |-> "onExplanationChunk", chunk |-> chunk]
StreamEndCall == [kind |-> "onStreamEnd"]

(***************************************************************************)
(* The stream texts of the model: up to MaxPieces pieces, a piece being    *)
(* one token or the separator.                                             *)
(***************************************************************************)
Pieces == {<<c>> : c \in Alphabet} \cup {separator}

RECURSIVE TextsOf(_)
TextsOf(n) ==
    IF n = 0 THEN {<<>>}
    ELSE LET shorter == TextsOf(n - 1)
         IN  shorter \cup {t \o p : t \in shorter, p \in Pieces}

Texts == TextsOf(MaxPieces)

RECURSIVE Concat(_)
Concat(chunks) == IF chunks = <<>> THEN <<>> ELSE Head(chunks) \o Concat(Tail(chunks))

(***************************************************************************)
(* evaluateSentenceStream.                                                 *)
(***************************************************************************)
\* HandleChunk calling onExplanationChunk with the first chunk before
\* onStructuredData
HandleChunkExplanationFirst(buf, hp, cs, t) ==
    IF t = <<>> THEN [buffer |-> buf, headersParsed |-> hp, calls |-> cs]
    ELSE IF hp
      THEN [buffer |-> buf, headersParsed |-> hp,
            calls |-> Append(cs, ExplanationCall(t))]
      ELSE LET b == buf \o t
               separatorIndex == IndexOf(b, separator)
               header == Substring(b, 0, separatorIndex)
               firstChunk == SubstringFrom(b, separatorIndex + Len(separator))
           IN  IF separatorIndex # -1
                 THEN [buffer |-> b, headersParsed |-> TRUE,
                       calls |-> cs \o (IF firstChunk # <<>>
                                          THEN <<ExplanationCall(firstChunk)>>
                                          ELSE <<>>)
                                 \o <<StructuredCall(ParseHeader(header))>>]
                 ELSE [buffer |-> b, headersParsed |-> FALSE, calls |-> cs]

\* HandleChunk with buffer = text in place of buffer += text
HandleChunkNoBuffer(buf, hp, cs, t) ==
    IF t = <<>> THEN [buffer |-> buf, headersParsed |-> hp, calls |-> cs]
    ELSE IF hp
      THEN [buffer |-> buf, headersParsed |-> hp,
            calls |-> Append(cs, ExplanationCall(t))]
      ELSE LET b == t
               separatorIndex == IndexOf(b, separator)
               header == Substring(b, 0, separatorIndex)
               firstChunk == SubstringFrom(b, separatorIndex + Len(separator))
           IN  IF separatorIndex # -1
                 THEN [buffer |-> b, headersParsed |-> TRUE,
                       calls |-> Append(cs, StructuredCall(ParseHeader(header)))
                                 \o (IF firstChunk # <<>>
                                       THEN <<ExplanationCall(firstChunk)>>
                                       ELSE <<>>)]
                 ELSE [buffer |-> b, headersParsed |-> FALSE, calls |-> cs]

\* HandleChunk without headersParsed = true
HandleChunkFlagNotSet(buf, hp, cs, t) ==
    IF t = <<>> THEN [buffer |-> buf, headersParsed |-> hp, calls |-> cs]
    ELSE IF hp
      THEN [buffer |-> buf, headersParsed |-> hp,
            calls |-> Append(cs, ExplanationCall(t))]
      ELSE LET b == buf \o t
               separatorIndex == IndexOf(b, separator)
               header == Substring(b, 0, separatorIndex)
               firstChunk == SubstringFrom(b, separatorIndex + Len(separator))
           IN  IF separatorIndex # -1
                 THEN [buffer |-> b, headersParsed |-> FALSE,
                       calls |-> Append(cs, StructuredCall(ParseHeader(header)))
                                 \o (IF firstChunk # <<>>
                                       THEN <<ExplanationCall(firstChunk)>>
                                       ELSE <<>>)]
                 ELSE [buffer |-> b, headersParsed |-> FALSE, calls |-> cs]

\* lines 681-711: the body of the for-await loop for one chunk with text t
HandleChunk(buf, hp, cs, t) ==
    IF t = <<>> THEN [buffer |-> buf, headersParsed |-> hp, calls |-> cs]
    ELSE IF hp
      THEN [buffer |-> buf, headersParsed |-> hp,
            calls |-> Append(cs, ExplanationCall(t))]
      ELSE LET b == buf \o t
               separatorIndex == IndexOf(b, separator)
               header == Substring(b, 0, separatorIndex)
               firstChunk == SubstringFrom(b, separatorIndex + Len(separator))
           IN  IF separatorIndex # -1
                 THEN [buffer |-> b, headersParsed |-> TRUE,
                       calls |-> Append(cs, StructuredCall(ParseHeader(header)))
                                 \o (IF firstChunk # <<>>
                                       THEN <<ExplanationCall(firstChunk)>>
                                       ELSE <<>>)]
                 ELSE [buffer |-> b, headersParsed |-> FALSE, calls |-> cs]

\* GuessExplanation without .trim()
GuessExplanationNoTrim(headers) ==
    LET lines == SplitLines(headers)
        found == {i \in 1..Len(lines) : lines[i] # <<>> /\ lines[i][1] = CORR}
    IN  IF found = {} THEN <<>>
        ELSE LET correctedLineIndex == CHOOSE i \in found : \A j \in found : i <= j
             IN  IF correctedLineIndex + 1 <= Len(lines)
                   THEN JoinLines(SubSeq(lines, correctedLineIndex + 1, Len(lines)))
                   ELSE <<>>

\* lines 736-741: the explanation guessed when there is no separator
GuessExplanation(headers) ==
    LET lines == SplitLines(headers)
        found == {i \in 1..Len(lines) : lines[i] # <<>> /\ lines[i][1] = CORR}
    IN  IF found = {} THEN <<>>
        ELSE LET correctedLineIndex == CHOOSE i \in found : \A j \in found : i <= j
             IN  IF correctedLineIndex + 1 <= Len(lines)
                   THEN Trim(JoinLines(SubSeq(lines, correctedLineIndex + 1, Len(lines))))
                   ELSE <<>>

\* lines 714-747: the fallback after the loop
Fallback(buf, hp, cs) ==
    IF ~hp /\ Len(buf) > 0
      THEN LET headerPart == buf
               separatorIndex == IndexOf(headerPart, separator)
               headers == IF separatorIndex # -1
                            THEN Substring(headerPart, 0, separatorIndex)
                            ELSE headerPart
               explanation == IF separatorIndex # -1
                                THEN SubstringFrom(headerPart, separatorIndex + Len(separator))
                                ELSE GuessExplanation(headers)
           IN  Append(cs, StructuredCall(ParseHeader(headers)))
               \o (IF explanation # <<>> THEN <<ExplanationCall(explanation)>> ELSE <<>>)
      ELSE cs

\* CatchBlock that also hands over default fields
CatchBlockWithData(cs) ==
    Append(Append(cs, ExplanationCall(ErrorMessage)), StructuredCall(ParseHeader(<<>>)))

\* lines 749-751: the catch block
CatchBlock(cs) == Append(cs, ExplanationCall(ErrorMessage))

\* FinallyBlock calling onStreamEnd twice
FinallyBlockTwice(cs) == Append(Append(cs, StreamEndCall), StreamEndCall)

\* lines 752-754: the finally block calls onStreamEnd
FinallyBlock(cs) == Append(cs, StreamEndCall)

\* lines 749-755: the catch block does not throw again, so the promise of the
\* async function settles as the awaited onStreamEnd() does, whether or not
\* the try block has thrown
ReturnedPromise(outcome, hasThrown) ==
    IF outcome = "rejected" THEN "rejected" ELSE "resolved"


(***************************************************************************)
(* JavaScript values of the history items.  A string is modelled by an     *)
(* integer code of its content, a number by its value; typeof is the tag.  *)
(***************************************************************************)
Str(code) == [type |-> "string", v |-> code]
Num(n) == [type |-> "number", v |-> n]
Undefined == [type |-> "undefined", v |-> 0]

\* a null element of an imported array
Null == [isNull |-> TRUE]

\* enum GameMode of types.ts; it has no member SentenceCheck, so the
\* expression GameMode.SentenceCheck of mergeAndSaveHistory is undefined
GameMode_Translation == "TRANSLATION"
GameMode_MultipleChoice == "MULTIPLE_CHOICE"
GameMode_SentenceCheck == "undefined"

HistoryItem(id, timestamp, mode, chineseSentence, userSentence, audioBase64) ==
    [id |-> id, timestamp |-> timestamp, gameMode |-> mode,
     chineseSentence |-> chineseSentence, userSentence |-> userSentence,
     audioBase64 |-> audioBase64]

(***************************************************************************)
(* historyService.                                                         *)
(***************************************************************************)
\* .slice(0, 100) of addHistoryItem
ADD_CAP == 100
\* .slice(0, 200) of mergeAndSaveHistory
MERGE_CAP == 200

\* Array.prototype.slice(0, n)
Slice(items, n) == SubSeq(items, 1, IF Len(items) < n THEN Len(items) ELSE n)

\* the entry of localStorage: absent, not JSON, or the JSON of a list of items
\* (JSON.stringify followed by JSON.parse gives back the items of the model:
\* a property that is undefined and a property that is missing are both
\* Undefined here)
Absent == [state |-> "absent", value |-> <<>>]
Corrupt == [state |-> "corrupt", value |-> <<>>]
Json(items) == [state |-> "json", value |-> items]

getHistory(st) == IF st.state = "json" THEN st.value ELSE <<>>

\* localStorage.setItem(HISTORY_KEY, JSON.stringify(items)); it throws when the
\* quota is exceeded (quotaOk = FALSE), and every caller catches that
\* setItem that loses the entry when it fails
setItemClearing(st, items, quotaOk) == IF quotaOk THEN Json(items) ELSE Absent

setItem(st, items, quotaOk) == IF quotaOk THEN Json(items) ELSE st

\* addHistoryItem without .slice(0, 100)
addHistoryItemNoCap(st, newItem, quotaOk) ==
    setItem(st, <<newItem>> \o getHistory(st), quotaOk)

addHistoryItem(st, newItem, quotaOk) ==
    LET currentHistory == getHistory(st)
        newHistory == Slice(<<newItem>> \o currentHistory, ADD_CAP)
    IN  setItem(st, newHistory, quotaOk)

\* updateHistoryItem that adds the item when no item has its id
updateHistoryItemOrAdd(st, updatedItem, quotaOk) ==
    LET currentHistory == getHistory(st)
    IN  setItem(st,
                IF \E i \in 1..Len(currentHistory) : currentHistory[i].id = updatedItem.id
                  THEN [i \in 1..Len(currentHistory) |->
                          IF currentHistory[i].id = updatedItem.id
                            THEN updatedItem ELSE currentHistory[i]]
                  ELSE <<updatedItem>> \o currentHistory,
                quotaOk)

updateHistoryItem(st, updatedItem, quotaOk) ==
    LET currentHistory == getHistory(st)
        newHistory == [i \in 1..Len(currentHistory) |->
                         IF currentHistory[i].id = updatedItem.id
                           THEN updatedItem ELSE currentHistory[i]]
    IN  setItem(st, newHistory, quotaOk)

\* Array.prototype.filter(item => !ids.has(item.id))
WithoutIds(items, ids) == SelectSeq(items, LAMBDA item : item.id \notin ids)

deleteHistoryItem(st, id, quotaOk) ==
    setItem(st, WithoutIds(getHistory(st), {id}), quotaOk)

\* deleteMultipleHistoryItems that deletes one of the ids only
deleteMultipleHistoryItemsOne(st, ids, quotaOk) ==
    setItem(st,
            IF ids = {} THEN getHistory(st)
            ELSE LET id == CHOOSE x \in ids : \A y \in ids : x.v <= y.v
                 IN  SelectSeq(getHistory(st), LAMBDA item : item.id # id),
            quotaOk)

deleteMultipleHistoryItems(st, ids, quotaOk) ==
    setItem(st, WithoutIds(getHistory(st), ids), quotaOk)

\* lines 283-288
mainSentence(item) ==
    IF item.gameMode = GameMode_SentenceCheck THEN item.userSentence
    ELSE item.chineseSentence

\* lines 291-294: the items that are not skipped
IsValidItem(item) ==
    /\ item.id.type = "string"
    /\ item.timestamp.type = "number"
    /\ mainSentence(item).type = "string"

\* line 295: `${item.timestamp}-${mainSentence}`; the text of a number holds no
\* '-' after its first character unless it holds an 'e' before it, so two
\* keys are equal exactly when the timestamps and the sentences are
ItemKey(item) == <<item.timestamp.v, mainSentence(item).v>>

\* MapSetIfAbsent without the has(key) test: a later item replaces the value
MapSetAlways(map, item) ==
    IF ~IsValidItem(item) THEN map
    ELSE IF ItemKey(item) \in map.keys
      THEN [keys |-> map.keys,
            values |-> [i \in 1..Len(map.values) |->
                          IF ItemKey(map.values[i]) = ItemKey(item)
                            THEN item ELSE map.values[i]]]
      ELSE [keys |-> map.keys \cup {ItemKey(item)}, values |-> Append(map.values, item)]

\* lines 297-299: historyMap.has(key) and historyMap.set(key, item); the
\* values of the Map are kept in insertion order
MapSetIfAbsent(map, item) ==
    IF ~IsValidItem(item) \/ ItemKey(item) \in map.keys
      THEN map
      ELSE [keys |-> map.keys \cup {ItemKey(item)}, values |-> Append(map.values, item)]

\* lines 279-300: the loop over items[lo..hi], in order, starting with map (the
\* range is split in halves to keep the depth of the recursion logarithmic)
RECURSIVE FillHistoryMap(_, _, _, _)
FillHistoryMap(items, lo, hi, map) ==
    IF lo > hi THEN map
    ELSE IF lo = hi THEN MapSetIfAbsent(map, items[lo])
    ELSE LET mid == (lo + hi) \div 2
             left == FillHistoryMap(items, lo, mid, map)
         IN  \* left is read first, which keeps the evaluation stack shallow
             IF Len(left.values) >= 0
               THEN FillHistoryMap(items, mid + 1, hi, left) ELSE left

\* InsertByTimestamp for the comparator a.timestamp - b.timestamp
InsertByTimestampAscending(sorted, item) ==
    LET k == Cardinality({j \in 1..Len(sorted) :
                            sorted[j].timestamp.v <= item.timestamp.v})
    IN  SubSeq(sorted, 1, k) \o <<item>> \o SubSeq(sorted, k + 1, Len(sorted))

\* one item put into a list sorted by (a, b) => b.timestamp - a.timestamp:
\* behind every item that is as recent or more recent
InsertByTimestamp(sorted, item) ==
    LET k == Cardinality({j \in 1..Len(sorted) :
                            sorted[j].timestamp.v >= item.timestamp.v})
    IN  SubSeq(sorted, 1, k) \o <<item>> \o SubSeq(sorted, k + 1, Len(sorted))

\* line 303: .sort((a, b) => b.timestamp - a.timestamp) of items[lo..hi] into
\* sorted; Array.prototype.sort is stable, which inserting the items in their
\* order is too
RECURSIVE SortByTimestampDesc(_, _, _, _)
SortByTimestampDesc(items, lo, hi, sorted) ==
    IF lo > hi THEN sorted
    ELSE IF lo = hi THEN InsertByTimestamp(sorted, items[lo])
    ELSE LET mid == (lo + hi) \div 2
             left == SortByTimestampDesc(items, lo, mid, sorted)
         IN  \* left is read first, which keeps the evaluation stack shallow
             IF Len(left) >= 0
               THEN SortByTimestampDesc(items, mid + 1, hi, left) ELSE left

\* an imported value: something that is no array, or an array of elements
NotAnArray == [isArray |-> FALSE, elems |-> <<>>]
ArrayOf(elems) == [isArray |-> TRUE, elems |-> elems]

\* MergeNotSaved returning an empty list
MergeNotSavedEmpty(st) ==
    [stored |-> st, returned |-> <<>>, saved |-> FALSE, setItemThrew |-> FALSE]

\* lines 269-272 and 310-313: return getHistory() with nothing written
MergeNotSaved(st) ==
    [stored |-> st, returned |-> getHistory(st), saved |-> FALSE, setItemThrew |-> FALSE]

\* lines 267-314; the result is the new entry of localStorage, the value
\* returned, and whether the merged history was saved
mergeAndSaveHistory(st, importedHistory, quotaOk) ==
    LET failed == MergeNotSaved(st)
    IN  IF ~importedHistory.isArray THEN failed
        ELSE LET currentHistory == getHistory(st)
                 combinedHistory == currentHistory \o importedHistory.elems
             IN  \* item.gameMode of a null item throws a TypeError
                 IF \E i \in 1..Len(combinedHistory) : combinedHistory[i] = Null
                   THEN failed
                   ELSE LET historyMap == FillHistoryMap(combinedHistory, 1,
                                             Len(combinedHistory),
                                             [keys |-> {}, values |-> <<>>])
                            mergedHistory == SortByTimestampDesc(historyMap.values, 1,
                                                Len(historyMap.values), <<>>)
                            finalHistory == Slice(mergedHistory, MERGE_CAP)
                        IN  IF quotaOk
                              THEN [stored |-> Json(finalHistory),
                                    returned |-> finalHistory, saved |-> TRUE,
                                    setItemThrew |-> FALSE]
                              ELSE [failed EXCEPT !.setItemThrew = TRUE]

NoArg == [item |-> Null, ids |-> {}, imported |-> NotAnArray]

\* the history part of the state while only the stream parser runs
HistoryIdle ==
    /\ stored = Absent
    /\ history = <<>>
    /\ mounted = FALSE
    /\ now = 0
    /\ serial = 0
    /\ steps = 0
    /\ lastOp = "none"
    /\ lastArg = NoArg
    /\ lastSaved = FALSE
    /\ quotaFailed = FALSE
    /\ returned = <<>>

\* the parser part of the state while only the history operations run
StreamIdle ==
    /\ text = <<>>
    /\ delivered = <<>>
    /\ buffer = <<>>
    /\ headersParsed = FALSE
    /\ calls = <<>>
    /\ pc = "idle"
    /\ threw = FALSE
    /\ promise = "none"
    /\ streamEndOutcome = "none"

(***************************************************************************)
(* The values of App's state.                                              *)
(***************************************************************************)
GameState_Welcome == "Welcome"
GameState_Practicing == "Practicing"
GameState_Loading == "Loading"
GameState_Feedback == "Feedback"

\* useState<GameMode | null>(null), useState<string | null>(null)
NoMode == "null"
NoError == "null"
StartError == "Failed to fetch a new task. Please try again."
NextError == "Failed to fetch the next task. Please try again."

Difficulty_N5 == "N5"
Difficulty_N3 == "N3"

GrammarPoint(level) == [level |-> level]

\* a task is null or an object with an optional grammarPoint
SentenceTask(grammarPoint) == [chineseSentence |-> Str(0), grammarPoint |-> grammarPoint]
MultipleChoiceTask(grammarPoint) ==
    [chineseSentence |-> Str(0), correctOptionIndex |-> Num(0), grammarPoint |-> grammarPoint]

\* the task part of the state while the parser or the history operations run
AppIdle ==
    /\ gameState = GameState_Welcome
    /\ gameMode = NoMode
    /\ currentTask = Null
    /\ mcqTask = Null
    /\ error = NoError
    /\ allGrammarPoints = <<>>
    /\ fetches = <<>>
    /\ started = 0
    /\ appOp = "none"
    /\ afterHome = FALSE

\* no evaluation has been started by FeedbackDisplay
FeedbackIdle ==
    /\ evalTask = Null
    /\ speech = "none"
    /\ completions = <<>>

StreamInit ==
    /\ HistoryIdle
    /\ AppIdle
    /\ FeedbackIdle
    /\ text \in Texts
    /\ delivered = <<>>
    /\ buffer = <<>>
    /\ headersParsed = FALSE
    /\ calls = <<>>
    /\ pc = "request"
    /\ threw = FALSE
    /\ promise = "pending"
    /\ streamEndOutcome = "pending"

\* line 672: ai.models.generateContentStream resolves with a stream
RequestResolves ==
    /\ pc = "request"
    /\ pc' = "iterate"
    /\ UNCHANGED <<text, delivered, buffer, headersParsed, calls, threw, promise, streamEndOutcome, historyVars, appVars, feedbackVars>>

\* line 672: ai.models.generateContentStream rejects
RequestThrowsStep ==
    /\ pc = "request"
    /\ threw' = TRUE
    /\ calls' = FinallyBlock(CatchBlock(calls))
    /\ pc' = "streamEnd"
    /\ UNCHANGED <<text, delivered, buffer, headersParsed, promise, streamEndOutcome>>

RequestThrows == RequestThrowsStep /\ UNCHANGED <<historyVars, appVars, feedbackVars>>

Rest == SubstringFrom(text, Len(Concat(delivered)))

\* line 680: the stream yields its next chunk, the next n tokens of the text
\* (n = 0: a chunk whose text is empty or undefined)
NextChunk ==
    /\ pc = "iterate"
    /\ \E n \in 0..Len(Rest) :
         /\ n > 0 => Len(delivered) < MaxChunks
         /\ (n > 0 /\ Len(delivered) = MaxChunks - 1) => n = Len(Rest)
         /\ LET t == SubSeq(Rest, 1, n)
                r == HandleChunk(buffer, headersParsed, calls, t)
            IN  /\ delivered' = IF n = 0 THEN delivered ELSE Append(delivered, t)
                /\ buffer' = r.buffer
                /\ headersParsed' = r.headersParsed
                /\ calls' = r.calls
    /\ UNCHANGED <<text, pc, threw, promise, streamEndOutcome, historyVars, appVars, feedbackVars>>

\* line 680: the stream is exhausted; lines 714-747 and the finally block run
StreamEndsStep ==
    /\ pc = "iterate"
    /\ Rest = <<>>
    /\ calls' = FinallyBlock(Fallback(buffer, headersParsed, calls))
    /\ pc' = "streamEnd"
    /\ UNCHANGED <<text, delivered, buffer, headersParsed, threw, promise, streamEndOutcome>>

StreamEnds == StreamEndsStep /\ UNCHANGED <<historyVars, appVars, feedbackVars>>

\* line 680: the stream iteration throws; the catch and the finally block run
StreamThrowsStep ==
    /\ pc = "iterate"
    /\ threw' = TRUE
    /\ calls' = FinallyBlock(CatchBlock(calls))
    /\ pc' = "streamEnd"
    /\ UNCHANGED <<text, delivered, buffer, headersParsed, promise, streamEndOutcome>>

StreamThrows == StreamThrowsStep /\ UNCHANGED <<historyVars, appVars, feedbackVars>>

\* line 753: await onStreamEnd() settles, and with it the returned promise
StreamEndSettles ==
    /\ pc = "streamEnd"
    /\ \E outcome \in {"resolved", "rejected"} :
         /\ streamEndOutcome' = outcome
         /\ promise' = ReturnedPromise(outcome, threw)
    /\ pc' = "done"
    /\ UNCHANGED <<text, delivered, buffer, headersParsed, calls, threw, historyVars, appVars, feedbackVars>>

StreamNext ==
    \/ RequestResolves
    \/ RequestThrows
    \/ NextChunk
    \/ StreamEnds
    \/ StreamThrows
    \/ StreamEndSettles

StreamSpec == StreamInit /\ [][StreamNext]_vars


(***************************************************************************)
(* The histories and the imported arrays of the model.                     *)
(***************************************************************************)
\* the k-th oldest item of a sample history: two items for each timestamp,
\* with different sentences, and every third one a multiple-choice item
SampleItem(k) ==
    HistoryItem(Str(k), Num((k + 1) \div 2),
                IF k % 3 = 0 THEN GameMode_MultipleChoice ELSE GameMode_Translation,
                Str(k % 2),
                IF k % 3 = 0 THEN Undefined ELSE Str(k % 2),
                Undefined)

\* a history of n items, newest first, as the app writes it
SampleHistory(n) == [i \in 1..n |-> SampleItem(n + 1 - i)]

\* a time that is later than the timestamp of every sample item
SampleNow == MERGE_CAP

\* the elements an imported array is made of, given the existing history
ImportElements(existing) ==
    {Null,
     \* skipped: id is a number, timestamp is a string, no sentence
     HistoryItem(Num(7), Num(1), GameMode_Translation, Str(0), Str(0), Undefined),
     HistoryItem(Str(1001), Str(5), GameMode_Translation, Str(0), Str(0), Undefined),
     HistoryItem(Str(1002), Num(1), GameMode_MultipleChoice, Undefined, Str(0), Undefined),
     \* valid: no gameMode, the sentence is userSentence
     HistoryItem(Str(1003), Num(SampleNow + 1), "undefined", Undefined, Str(3), Undefined),
     \* valid: newer than every existing item, older than every existing item
     HistoryItem(Str(1004), Num(SampleNow + 2), GameMode_Translation, Str(2), Str(2), Str(1)),
     HistoryItem(Str(1005), Num(0), GameMode_Translation, Str(2), Str(2), Undefined)}
    \cup
    \* valid: the key of the newest existing item, with another id and audio;
    \* its timestamp, with another sentence; the key of the oldest existing
    \* item, with another id
    (IF existing = <<>> THEN {}
     ELSE {[existing[1] EXCEPT !.id = Str(1006), !.audioBase64 = Str(9)],
           [existing[1] EXCEPT !.id = Str(1007), !.chineseSentence = Str(4),
                               !.userSentence = Str(4)],
           [existing[Len(existing)] EXCEPT !.id = Str(1008)]})

RECURSIVE ArraysOf(_, _)
ArraysOf(elements, n) ==
    IF n = 0 THEN {<<>>}
    ELSE LET shorter == ArraysOf(elements, n - 1)
         IN  shorter \cup {Append(a, e) : a \in shorter, e \in elements}

(***************************************************************************)
(* App: the history list in memory and its handlers.                       *)
(***************************************************************************)
\* the ids of the cards the model's user acts on: the first and the last one
CardPositions(h) == {i \in 1..Len(h) : i = 1 \/ i = Len(h)}

\* an id no item has
MissingId == Str(0)

\* the id App draws: `${Date.now()}-${Math.random()}`
DrawnId == Str(0 - serial - 1)

HistoryOp(op, arg, saved, setItemThrew) ==
    /\ steps' = steps + 1
    /\ lastOp' = op
    /\ lastArg' = arg
    /\ lastSaved' = saved
    /\ quotaFailed' = (quotaFailed \/ setItemThrew)

\* App.tsx lines 36-39
LoadHistory ==
    /\ ~mounted
    /\ mounted' = TRUE
    /\ history' = getHistory(stored)
    /\ lastOp' = "load"
    /\ UNCHANGED <<stored, now, serial, steps, lastArg, lastSaved, quotaFailed, returned,
                   streamVars, appVars, feedbackVars>>

\* handleTranslationComplete and handleMcqComplete once their task is known to
\* be set: the item is saved and put in front of the list in memory
AddNewItem(newItem, quotaOk) ==
    /\ stored' = addHistoryItem(stored, newItem, quotaOk)
    /\ history' = <<newItem>> \o history
    /\ serial' = serial + 1
    /\ HistoryOp("add", [NoArg EXCEPT !.item = newItem], quotaOk, ~quotaOk)

\* App.tsx lines 141-160
handleTranslationComplete ==
    /\ mounted /\ steps < MaxOps
    /\ \E closureTask \in {"null", "task"}, quotaOk \in BOOLEAN, elapsed \in {0, 1} :
         IF closureTask = "null"
           THEN UNCHANGED historyVars
           ELSE /\ AddNewItem(HistoryItem(DrawnId, Num(now), GameMode_Translation,
                                          Str(0), Str(0), Undefined), quotaOk)
                /\ now' = now + elapsed
                /\ UNCHANGED <<mounted, returned>>
    /\ UNCHANGED <<streamVars, appVars, feedbackVars>>

\* App.tsx lines 162-180
handleMcqComplete ==
    /\ mounted /\ steps < MaxOps
    /\ \E closureTask \in {"null", "task"}, quotaOk \in BOOLEAN, elapsed \in {0, 1} :
         IF closureTask = "null"
           THEN UNCHANGED historyVars
           ELSE /\ AddNewItem(HistoryItem(DrawnId, Num(now), GameMode_MultipleChoice,
                                          Str(0), Undefined, Undefined), quotaOk)
                /\ now' = now + elapsed
                /\ UNCHANGED <<mounted, returned>>
    /\ UNCHANGED <<streamVars, appVars, feedbackVars>>

\* App.tsx lines 136-139, called by a card with its item and the new audio
handleUpdateHistoryItem ==
    /\ mounted /\ steps < MaxOps
    /\ \E i \in CardPositions(history), quotaOk \in BOOLEAN :
         LET updatedItem == [history[i] EXCEPT !.audioBase64 = Str(1)]
         IN  /\ stored' = updateHistoryItem(stored, updatedItem, quotaOk)
             /\ history' = [j \in 1..Len(history) |->
                              IF history[j].id = updatedItem.id
                                THEN updatedItem ELSE history[j]]
             /\ HistoryOp("update", [NoArg EXCEPT !.item = updatedItem], quotaOk, ~quotaOk)
    /\ UNCHANGED <<mounted, now, serial, returned, streamVars, appVars, feedbackVars>>

\* App.tsx lines 124-127
handleDeleteHistoryItem ==
    /\ mounted /\ steps < MaxOps
    /\ \E id \in {history[i].id : i \in CardPositions(history)} \cup {MissingId},
          quotaOk \in BOOLEAN :
         /\ stored' = deleteHistoryItem(stored, id, quotaOk)
         /\ history' = WithoutIds(history, {id})
         /\ HistoryOp("delete", [NoArg EXCEPT !.ids = {id}], quotaOk, ~quotaOk)
    /\ UNCHANGED <<mounted, now, serial, returned, streamVars, appVars, feedbackVars>>

\* App.tsx lines 129-133, called by handleDeleteSelected with a non-empty set
handleDeleteMultipleHistoryItems ==
    /\ mounted /\ steps < MaxOps
    /\ \E ids \in SUBSET {history[i].id : i \in CardPositions(history)},
          quotaOk \in BOOLEAN :
         /\ ids # {}
         /\ stored' = deleteMultipleHistoryItems(stored, ids, quotaOk)
         /\ history' = WithoutIds(history, ids)
         /\ HistoryOp("deleteMultiple", [NoArg EXCEPT !.ids = ids], quotaOk, ~quotaOk)
    /\ UNCHANGED <<mounted, now, serial, returned, streamVars, appVars, feedbackVars>>

\* App.tsx lines 119-122, called by handleFileImport with an array of at most
\* one element
handleImportHistory ==
    /\ mounted /\ steps < MaxOps
    /\ \E elems \in ArraysOf(ImportElements(getHistory(stored)), 1),
          quotaOk \in BOOLEAN :
         LET r == mergeAndSaveHistory(stored, ArrayOf(elems), quotaOk)
         IN  /\ stored' = r.stored
             /\ returned' = r.returned
             /\ history' = r.returned
             /\ HistoryOp("merge", [NoArg EXCEPT !.imported = ArrayOf(elems)], r.saved,
                           r.setItemThrew)
    /\ UNCHANGED <<mounted, now, serial, streamVars, appVars, feedbackVars>>

\* the entries of localStorage App starts with
HistoryInit ==
    /\ StreamIdle
    /\ AppIdle
    /\ FeedbackIdle
    /\ stored \in {Absent, Corrupt}
                  \cup {Json(SampleHistory(n)) : n \in {0, 2, ADD_CAP - 1, ADD_CAP}}
    /\ history = <<>>
    /\ mounted = FALSE
    /\ now = SampleNow
    /\ serial = 0
    /\ steps = 0
    /\ lastOp = "none"
    /\ lastArg = NoArg
    /\ lastSaved = FALSE
    /\ quotaFailed = FALSE
    /\ returned = <<>>

HistoryNext ==
    \/ LoadHistory
    \/ handleTranslationComplete
    \/ handleMcqComplete
    \/ handleUpdateHistoryItem
    \/ handleDeleteHistoryItem
    \/ handleDeleteMultipleHistoryItems
    \/ handleImportHistory

HistorySpec == HistoryInit /\ [][HistoryNext]_vars

(***************************************************************************)
(* mergeAndSaveHistory applied to a stored history and an imported value.  *)
(***************************************************************************)
MergeInit ==
    /\ StreamIdle
    /\ AppIdle
    /\ FeedbackIdle
    /\ stored \in {Absent, Corrupt}
                  \cup {Json(SampleHistory(n)) : n \in {0, 1, 3, MERGE_CAP}}
    /\ history = <<>>
    /\ mounted = FALSE
    /\ now = SampleNow
    /\ serial = 0
    /\ steps = 0
    /\ lastOp = "none"
    /\ lastArg = NoArg
    /\ lastSaved = FALSE
    /\ quotaFailed = FALSE
    /\ returned = <<>>

Imported(existing) ==
    {NotAnArray} \cup {ArrayOf(a) : a \in ArraysOf(ImportElements(existing), MaxImported)}

CallMergeAndSaveHistory ==
    /\ steps = 0
    /\ \E importedHistory \in Imported(getHistory(stored)), quotaOk \in BOOLEAN :
         LET r == mergeAndSaveHistory(stored, importedHistory, quotaOk)
         IN  /\ stored' = r.stored
             /\ returned' = r.returned
             /\ HistoryOp("merge", [NoArg EXCEPT !.imported = importedHistory], r.saved,
                           r.setItemThrew)
    /\ UNCHANGED <<history, mounted, now, serial, streamVars, appVars, feedbackVars>>

MergeSpec == MergeInit /\ [][CallMergeAndSaveHistory]_vars

(***************************************************************************)
(* App: the game state, the task fetches and the render fallbacks.         *)
(***************************************************************************)
\* the content of /doc/jlpt_grammar_full.json: no point, a point of another
\* level, a point of the selected level
GrammarFiles == {<<>>, <<GrammarPoint(Difficulty_N5)>>, <<GrammarPoint(Difficulty_N3)>>}

\* part_004 lines 471-474 and 761-764: a grammar point of the level, if any
PickGrammarPoint(points, difficulty) ==
    LET relevantGrammar == SelectSeq(points, LAMBDA q : q.level = difficulty)
    IN  IF Len(relevantGrammar) > 0 THEN relevantGrammar[1] ELSE Undefined

\* the state of App as one value
AppState ==
    [gameState |-> gameState, gameMode |-> gameMode, currentTask |-> currentTask,
     mcqTask |-> mcqTask, error |-> error, fetches |-> fetches, started |-> started]

\* generateSentenceTask or generateMultipleChoiceTask up to its first pending
\* await: loadGrammarData returns at once when the cache is filled (part_004
\* lines 377-379), and the task is then waiting for generateContent
NewFetch(handler, mode) ==
    [handler |-> handler, mode |-> mode,
     pc |-> IF Len(allGrammarPoints) > 0 THEN "generate" ELSE "grammar",
     grammarPoint |-> PickGrammarPoint(allGrammarPoints, Difficulty_N3)]

\* App.tsx lines 71-92 up to the first await, with the gameMode of its closure
NextPracticeOn(s) ==
    LET cleared == [s EXCEPT !.gameState = GameState_Loading, !.error = NoError,
                             !.currentTask = Null, !.mcqTask = Null]
    IN  IF s.gameMode \in {GameMode_Translation, GameMode_MultipleChoice}
          THEN [cleared EXCEPT !.fetches = Append(@, NewFetch("next", s.gameMode)),
                               !.started = @ + 1]
          ELSE [cleared EXCEPT !.gameState = GameState_Practicing]

\* App.tsx lines 189-196 and 199-207: the screen has its task
ShowsPractice(s) ==
    \/ s.gameMode = GameMode_Translation /\ s.currentTask # Null
    \/ s.gameMode = GameMode_MultipleChoice /\ s.mcqTask # Null

ShowsFeedback(s) == s.gameMode = GameMode_Translation /\ s.currentTask # Null

\* App.tsx lines 183-217, renderGameState: Practicing without its task calls
\* handleNextPractice, Feedback without its task goes to Welcome.  With
\* gameMode null handleNextPractice ends in Practicing without a task again,
\* and every further render leaves that state as it is
Render(s) ==
    IF s.gameState = GameState_Practicing /\ ~ShowsPractice(s)
      THEN NextPracticeOn(s)
      ELSE IF s.gameState = GameState_Feedback /\ ~ShowsFeedback(s)
             THEN [s EXCEPT !.gameState = GameState_Welcome]
             ELSE s

\* the state updates of a step, followed by the render they cause
Commit(s) ==
    LET r == Render(s)
    IN  /\ r.started <= MaxFetches
        /\ gameState' = r.gameState
        /\ gameMode' = r.gameMode
        /\ currentTask' = r.currentTask
        /\ mcqTask' = r.mcqTask
        /\ error' = r.error
        /\ fetches' = r.fetches
        /\ started' = r.started

\* App.tsx lines 41-48
GoHomeStep ==
    /\ gameState # GameState_Welcome
    /\ Commit([AppState EXCEPT !.gameState = GameState_Welcome, !.gameMode = NoMode,
                               !.currentTask = Null, !.mcqTask = Null, !.error = NoError])
    /\ appOp' = "handleGoHome"
    /\ afterHome' = TRUE
    /\ UNCHANGED allGrammarPoints

handleGoHome == GoHomeStep /\ UNCHANGED <<streamVars, historyVars, feedbackVars>>

\* App.tsx lines 50-69 up to the first await; WelcomeScreen calls it
handleStartPractice ==
    /\ gameState = GameState_Welcome
    /\ \E selectedMode \in {GameMode_Translation, GameMode_MultipleChoice} :
         Commit([AppState EXCEPT !.gameMode = selectedMode,
                                 !.gameState = GameState_Loading,
                                 !.error = NoError,
                                 !.fetches = Append(@, NewFetch("start", selectedMode)),
                                 !.started = @ + 1])
    /\ appOp' = "handleStartPractice"
    /\ afterHome' = FALSE
    /\ UNCHANGED <<allGrammarPoints, streamVars, historyVars, feedbackVars>>

\* App.tsx lines 71-92 up to the first await; FeedbackDisplay and
\* MultipleChoiceScreen call it for the user
handleNextPractice ==
    /\ \/ gameState = GameState_Feedback
       \/ gameState = GameState_Practicing /\ gameMode = GameMode_MultipleChoice
    /\ Commit(NextPracticeOn(AppState))
    /\ appOp' = "handleNextPractice"
    /\ afterHome' = FALSE
    /\ UNCHANGED <<allGrammarPoints, streamVars, historyVars, feedbackVars>>

\* App.tsx lines 94-97; PracticeScreen calls it
handleSubmission ==
    /\ gameState = GameState_Practicing
    /\ gameMode = GameMode_Translation
    /\ Commit([AppState EXCEPT !.gameState = GameState_Feedback])
    /\ appOp' = "handleSubmission"
    /\ afterHome' = FALSE
    /\ UNCHANGED <<allGrammarPoints, streamVars, historyVars, feedbackVars>>

\* fetches without its i-th entry
WithoutFetch(i) == SubSeq(fetches, 1, i - 1) \o SubSeq(fetches, i + 1, Len(fetches))

\* the catch block of the handler: App.tsx lines 65-68 and 86-90
HandlerCatch(i) ==
    Commit([AppState EXCEPT !.error = IF fetches[i].handler = "start"
                                        THEN StartError ELSE NextError,
                            !.gameState = GameState_Welcome,
                            !.fetches = WithoutFetch(i)])

\* part_004 lines 381-386: the grammar file is fetched and cached, and the
\* task function goes on to its request
GrammarLoads ==
    /\ \E i \in 1..Len(fetches), data \in GrammarFiles :
         /\ fetches[i].pc = "grammar"
         /\ allGrammarPoints' = data
         /\ fetches' = [fetches EXCEPT ![i] =
                          [@ EXCEPT !.pc = "generate",
                                    !.grammarPoint = PickGrammarPoint(data, Difficulty_N3)]]
    /\ appOp' = "GrammarLoads"
    /\ UNCHANGED <<gameState, gameMode, currentTask, mcqTask, error, started, afterHome,
                   streamVars, historyVars, feedbackVars>>

\* part_004 lines 381-392: the fetch fails or is not ok; loadGrammarData
\* throws again, the task function has no try and rejects, the handler's
\* catch block runs
GrammarFails ==
    /\ \E i \in 1..Len(fetches) :
         /\ fetches[i].pc = "grammar"
         /\ allGrammarPoints' = <<>>
         /\ HandlerCatch(i)
    /\ appOp' = "GrammarFails"
    /\ UNCHANGED <<afterHome, streamVars, historyVars, feedbackVars>>

\* part_004 lines 478-497 and 803-827: the request resolves with valid JSON;
\* App.tsx lines 57-64 and 79-86 set the task and go to Practicing
GenerateResolves ==
    /\ \E i \in 1..Len(fetches) :
         /\ fetches[i].pc = "generate"
         /\ Commit(IF fetches[i].mode = GameMode_Translation
                     THEN [AppState EXCEPT
                             !.currentTask = SentenceTask(fetches[i].grammarPoint),
                             !.gameState = GameState_Practicing,
                             !.fetches = WithoutFetch(i)]
                     ELSE [AppState EXCEPT
                             !.mcqTask = MultipleChoiceTask(fetches[i].grammarPoint),
                             !.gameState = GameState_Practicing,
                             !.fetches = WithoutFetch(i)])
    /\ appOp' = "GenerateResolves"
    /\ UNCHANGED <<allGrammarPoints, afterHome, streamVars, historyVars, feedbackVars>>

\* the request rejects or its text is not JSON (part_004 lines 401-409)
GenerateRejects ==
    /\ \E i \in 1..Len(fetches) :
         /\ fetches[i].pc = "generate"
         /\ HandlerCatch(i)
    /\ appOp' = "GenerateRejects"
    /\ UNCHANGED <<allGrammarPoints, afterHome, streamVars, historyVars, feedbackVars>>

AppInit ==
    /\ StreamIdle
    /\ HistoryIdle
    /\ AppIdle
    /\ FeedbackIdle

AppNext ==
    \/ handleStartPractice
    \/ handleNextPractice
    \/ handleGoHome
    \/ handleSubmission
    \/ GrammarLoads
    \/ GrammarFails
    \/ GenerateResolves
    \/ GenerateRejects

AppSpec == AppInit /\ [][AppNext]_vars


(***************************************************************************)
(* historyService: its functions called one after another on the entry of  *)
(* localStorage.                                                            *)
(***************************************************************************)
\* a history in which two items have the same id, as an import can make it
HistoryWithSameIds ==
    <<SampleItem(3), [SampleItem(2) EXCEPT !.id = Str(3)], SampleItem(1)>>

ServiceHistories == {<<>>, SampleHistory(3), HistoryWithSameIds}

\* the ids the functions are called with: those of the sample items and one
\* that no item has
ServiceIds == {Str(1), Str(2), Str(3), MissingId}

\* a card's item with the audio that was generated for it
ServiceUpdates == {[SampleItem(k) EXCEPT !.audioBase64 = Str(1)] : k \in 1..3}
                  \cup {HistoryItem(MissingId, Num(1), GameMode_Translation, Str(0), Str(0),
                                    Str(1))}

ServiceInit ==
    /\ StreamIdle
    /\ AppIdle
    /\ FeedbackIdle
    /\ stored \in {Absent, Corrupt} \cup {Json(h) : h \in ServiceHistories}
    /\ history = <<>>
    /\ mounted = FALSE
    /\ now = SampleNow
    /\ serial = 0
    /\ steps = 0
    /\ lastOp = "none"
    /\ lastArg = NoArg
    /\ lastSaved = FALSE
    /\ quotaFailed = FALSE
    /\ returned = <<>>

\* the part of the state the functions of historyService leave alone
ServiceFrame ==
    UNCHANGED <<history, mounted, now, serial, returned, streamVars, appVars, feedbackVars>>

CallAddHistoryItem ==
    /\ steps < MaxOps
    /\ \E quotaOk \in BOOLEAN :
         LET newItem == HistoryItem(Str(4 + steps), Num(now), GameMode_Translation,
                                    Str(0), Str(0), Undefined)
         IN  /\ stored' = addHistoryItem(stored, newItem, quotaOk)
             /\ HistoryOp("add", [NoArg EXCEPT !.item = newItem], quotaOk, ~quotaOk)
    /\ ServiceFrame

CallUpdateHistoryItem ==
    /\ steps < MaxOps
    /\ \E updatedItem \in ServiceUpdates, quotaOk \in BOOLEAN :
         /\ stored' = updateHistoryItem(stored, updatedItem, quotaOk)
         /\ HistoryOp("update", [NoArg EXCEPT !.item = updatedItem], quotaOk, ~quotaOk)
    /\ ServiceFrame

CallDeleteHistoryItem ==
    /\ steps < MaxOps
    /\ \E id \in ServiceIds, quotaOk \in BOOLEAN :
         /\ stored' = deleteHistoryItem(stored, id, quotaOk)
         /\ HistoryOp("delete", [NoArg EXCEPT !.ids = {id}], quotaOk, ~quotaOk)
    /\ ServiceFrame

CallDeleteMultipleHistoryItems ==
    /\ steps < MaxOps
    /\ \E ids \in SUBSET ServiceIds, quotaOk \in BOOLEAN :
         /\ stored' = deleteMultipleHistoryItems(stored, ids, quotaOk)
         /\ HistoryOp("deleteMultiple", [NoArg EXCEPT !.ids = ids], quotaOk, ~quotaOk)
    /\ ServiceFrame

ServiceNext ==
    \/ CallAddHistoryItem
    \/ CallUpdateHistoryItem
    \/ CallDeleteHistoryItem
    \/ CallDeleteMultipleHistoryItems

ServiceSpec == ServiceInit /\ [][ServiceNext]_vars

(***************************************************************************)
(* The two parser paths applied to a header: the loop receives the header  *)
(* and the separator as one chunk, the fallback receives the header alone. *)
(***************************************************************************)
RECURSIVE HeadersOf(_)
HeadersOf(n) ==
    IF n = 0 THEN {<<>>}
    ELSE LET shorter == HeadersOf(n - 1)
         IN  shorter \cup {Append(h, c) : h \in shorter, c \in Alphabet}

Headers == HeadersOf(MaxHeaderLen)

HeaderInit ==
    /\ HistoryIdle
    /\ AppIdle
    /\ FeedbackIdle
    /\ text \in Headers
    /\ delivered = <<>>
    /\ buffer = <<>>
    /\ headersParsed = FALSE
    /\ calls = <<>>
    /\ pc = "header"
    /\ threw = FALSE
    /\ promise = "pending"
    /\ streamEndOutcome = "pending"

\* part_004 lines 681-711 for a chunk that ends with the separator
HeaderInLoop ==
    /\ pc = "header"
    /\ LET t == text \o separator
           r == HandleChunk(buffer, headersParsed, calls, t)
       IN  /\ delivered' = <<t>>
           /\ buffer' = r.buffer
           /\ headersParsed' = r.headersParsed
           /\ calls' = r.calls
    /\ pc' = "loop"
    /\ UNCHANGED <<text, threw, promise, streamEndOutcome, historyVars, appVars,
                   feedbackVars>>

\* part_004 lines 714-747 for a stream that ended without the separator
HeaderInFallback ==
    /\ pc = "header"
    /\ delivered' = IF text = <<>> THEN <<>> ELSE <<text>>
    /\ buffer' = text
    /\ calls' = Fallback(text, headersParsed, calls)
    /\ pc' = "fallback"
    /\ UNCHANGED <<text, headersParsed, threw, promise, streamEndOutcome, historyVars,
                   appVars, feedbackVars>>

HeaderNext == HeaderInLoop \/ HeaderInFallback

HeaderSpec == HeaderInit /\ [][HeaderNext]_vars

(***************************************************************************)
(* FeedbackDisplay: one evaluation, from the effect that starts it to the  *)
(* call of onComplete, and App's handleTranslationComplete.                *)
(***************************************************************************)
\* an optional value: undefined, or a value
Undef == <<>>
Some(x) == <<x>>

\* a ?? d
Coalesce(a, d) == IF a = Undef THEN d ELSE a[1]

\* part_004 lines 31 and 47: { explanation: '', score: undefined, evaluation: '' }
InitialRef ==
    [explanation |-> Some(<<>>), score |-> Undef, evaluation |-> Some(<<>>),
     correctedSentence |-> Undef]

\* part_004 lines 58-68: what a callback does to feedbackRef.current
ApplyCallback(ref, call) ==
    IF call.kind = "onStructuredData"
      THEN [ref EXCEPT !.score = Some(call.data.score),
                       !.evaluation = Some(call.data.evaluation),
                       !.correctedSentence = Some(call.data.correctedSentence)]
      ELSE IF call.kind = "onExplanationChunk"
             THEN [ref EXCEPT !.explanation = Some(Coalesce(@, <<>>) \o call.chunk)]
             ELSE ref

\* feedbackRef.current after the callbacks cs, which run inside
\* evaluateSentenceStream
RECURSIVE RefAfter(_)
RefAfter(cs) ==
    IF cs = <<>> THEN InitialRef
    ELSE ApplyCallback(RefAfter(SubSeq(cs, 1, Len(cs) - 1)), cs[Len(cs)])

\* part_004 lines 76-81: the Feedback onStreamEnd hands to onComplete; its
\* defaults use the words of DefaultEvaluation and DefaultCorrectedSentence
FeedbackOfRef(ref) ==
    [score |-> Coalesce(ref.score, 0),
     evaluation |-> Coalesce(ref.evaluation, DefaultEvaluation),
     correctedSentence |-> Coalesce(ref.correctedSentence, DefaultCorrectedSentence),
     explanation |-> Coalesce(ref.explanation, <<>>)]

\* part_004 lines 93-98: the Feedback of the catch block
ErrorFeedback ==
    [score |-> 0, evaluation |-> <<"Error">>, correctedSentence |-> <<"(Error)">>,
     explanation |-> <<"(sorry, the analysis failed, please try again)">>]

OnCompleteCall(feedback, audio) == [feedback |-> feedback, audio |-> audio]

\* part_004 line 73: the corrected sentence is defined and not empty
NeedsSpeech(ref) == ref.correctedSentence # Undef /\ ref.correctedSentence[1] # <<>>

\* FeedbackDisplayCatch that does not call onComplete
FeedbackDisplayCatchSilent(cs) == cs

\* part_004 lines 84-98: the catch block of streamEvaluation
FeedbackDisplayCatch(cs) == Append(cs, OnCompleteCall(ErrorFeedback, Null))

\* part_004 lines 76-81: onStreamEnd calls onComplete with the ref and the audio
OnStreamEndCompletes(cs, ref, audio) == Append(cs, OnCompleteCall(FeedbackOfRef(ref), audio))

\* the calls newCompletions of onComplete have been made: App.tsx lines
\* 141-160 run for a new call, with the currentTask of the closure
Completing(newCompletions, quotaOk) ==
    /\ completions' = newCompletions
    /\ IF Len(newCompletions) > Len(completions) /\ evalTask # Null
         THEN LET audio == newCompletions[Len(newCompletions)].audio
              IN  /\ AddNewItem(HistoryItem(DrawnId, Num(now), GameMode_Translation,
                                            Str(0), Str(0),
                                            IF audio = Null THEN Undefined ELSE audio),
                                quotaOk)
                  /\ UNCHANGED <<mounted, now, returned>>
         ELSE UNCHANGED historyVars

\* part_004 lines 69-75: onStreamEnd up to its first await, called with the
\* callbacks cs made so far
OnStreamEndCalled(cs) ==
    IF NeedsSpeech(RefAfter(cs))
      THEN /\ speech' = "pending"
           /\ UNCHANGED <<completions, historyVars>>
      ELSE /\ speech' = "skipped"
           /\ \E quotaOk \in BOOLEAN :
                Completing(OnStreamEndCompletes(completions, RefAfter(cs), Null), quotaOk)

\* the request rejects: catch, finally, and onStreamEnd up to its first await
EvaluationRequestThrows ==
    /\ RequestThrowsStep
    /\ OnStreamEndCalled(calls')
    /\ UNCHANGED <<evalTask, appVars>>

\* the stream is exhausted: fallback, finally, and onStreamEnd
EvaluationStreamEnds ==
    /\ StreamEndsStep
    /\ OnStreamEndCalled(calls')
    /\ UNCHANGED <<evalTask, appVars>>

\* the stream throws: catch, finally, and onStreamEnd
EvaluationStreamThrows ==
    /\ StreamThrowsStep
    /\ OnStreamEndCalled(calls')
    /\ UNCHANGED <<evalTask, appVars>>

\* part_004 lines 74-82: generateSpeech resolves with audio or with null;
\* onComplete is called, onStreamEnd and evaluateSentenceStream resolve
SpeechResolves ==
    /\ pc = "streamEnd" /\ speech = "pending"
    /\ \E audio \in {Str(1), Null}, quotaOk \in BOOLEAN :
         Completing(OnStreamEndCompletes(completions, RefAfter(calls), audio), quotaOk)
    /\ speech' = "resolved"
    /\ streamEndOutcome' = "resolved"
    /\ promise' = ReturnedPromise("resolved", threw)
    /\ pc' = "done"
    /\ UNCHANGED <<text, delivered, buffer, headersParsed, calls, threw, evalTask, appVars>>

\* generateSpeech rejects (part_004 lines 356-370 have no try): onStreamEnd
\* rejects at line 74, the await of the finally block throws, and the catch
\* block of streamEvaluation runs
SpeechRejects ==
    /\ pc = "streamEnd" /\ speech = "pending"
    /\ \E quotaOk \in BOOLEAN : Completing(FeedbackDisplayCatch(completions), quotaOk)
    /\ speech' = "rejected"
    /\ streamEndOutcome' = "rejected"
    /\ promise' = ReturnedPromise("rejected", threw)
    /\ pc' = "done"
    /\ UNCHANGED <<text, delivered, buffer, headersParsed, calls, threw, evalTask, appVars>>

\* onStreamEnd has called onComplete without an await: it resolves, and so
\* does evaluateSentenceStream
StreamEndResolves ==
    /\ pc = "streamEnd" /\ speech = "skipped"
    /\ streamEndOutcome' = "resolved"
    /\ promise' = ReturnedPromise("resolved", threw)
    /\ pc' = "done"
    /\ UNCHANGED <<text, delivered, buffer, headersParsed, calls, threw, historyVars,
                   appVars, feedbackVars>>

\* the history App has loaded when the feedback screen is shown
FeedbackHistory == SampleHistory(2)

\* App shows FeedbackDisplay for its task, and the effect of part_004 lines
\* 44-103 has called evaluateSentenceStream
FeedbackInit ==
    /\ text \in Texts
    /\ delivered = <<>>
    /\ buffer = <<>>
    /\ headersParsed = FALSE
    /\ calls = <<>>
    /\ pc = "request"
    /\ threw = FALSE
    /\ promise = "pending"
    /\ streamEndOutcome = "pending"
    /\ stored = Json(FeedbackHistory)
    /\ history = FeedbackHistory
    /\ mounted = TRUE
    /\ now = SampleNow
    /\ serial = 0
    /\ steps = 0
    /\ lastOp = "load"
    /\ lastArg = NoArg
    /\ lastSaved = FALSE
    /\ quotaFailed = FALSE
    /\ returned = <<>>
    /\ gameState = GameState_Feedback
    /\ gameMode = GameMode_Translation
    /\ currentTask = SentenceTask(Undefined)
    /\ mcqTask = Null
    /\ error = NoError
    /\ allGrammarPoints = <<>>
    /\ fetches = <<>>
    /\ started = 0
    /\ appOp = "handleSubmission"
    /\ afterHome = FALSE
    /\ evalTask = SentenceTask(Undefined)
    /\ speech = "none"
    /\ completions = <<>>

\* the user may leave with the Home button at any time
FeedbackNext ==
    \/ RequestResolves
    \/ EvaluationRequestThrows
    \/ NextChunk
    \/ EvaluationStreamEnds
    \/ EvaluationStreamThrows
    \/ SpeechResolves
    \/ SpeechRejects
    \/ StreamEndResolves
    \/ handleGoHome

FeedbackSpec == FeedbackInit /\ [][FeedbackNext]_vars

(***************************************************************************)
(* Properties of evaluateSentenceStream (StreamSpec).                      *)
(***************************************************************************)
IsExplanation(i) == calls[i].kind = "onExplanationChunk"
IsStructured(i) == calls[i].kind = "onStructuredData"

ExplanationChunks == SelectSeq(calls, LAMBDA c : c.kind = "onExplanationChunk")
StructuredCalls == SelectSeq(calls, LAMBDA c : c.kind = "onStructuredData")

\* the payloads of the onExplanationChunk calls, joined in call order
ExplanationText == Concat([i \in 1..Len(ExplanationChunks) |-> ExplanationChunks[i].chunk])

\* evaluateSentenceStream has run to its finally block without a failure
EndedWithoutFailure == pc \in {"streamEnd", "done"} /\ ~threw

\* the call the catch block makes: the last onExplanationChunk call of a
\* failed evaluation
IsCatchCall(i) == threw /\ IsExplanation(i) /\ \A j \in (i + 1)..Len(calls) : ~IsExplanation(j)

\* C1 as stated: every onExplanationChunk call is preceded by an
\* onStructuredData call of the same evaluation, also when the stream fails
C1_ExplanationAfterStructured ==
    \A i \in 1..Len(calls) :
        IsExplanation(i) => \E j \in 1..(i - 1) : IsStructured(j)

\* C1 as amended: every onExplanationChunk call other than the one the catch
\* block makes is preceded by an onStructuredData call of the same evaluation
C1_StreamTextAfterStructured ==
    \A i \in 1..Len(calls) :
        (IsExplanation(i) /\ ~IsCatchCall(i)) => \E j \in 1..(i - 1) : IsStructured(j)

\* a stream that failed part-way, after explanation text had been forwarded
C1_Witness ==
    /\ pc = "done" /\ threw
    /\ Len(ExplanationChunks) >= 2
    /\ Len(StructuredCalls) = 1

\* C2: for a stream that does not fail and whose text contains the separator,
\* the explanation payloads joined in call order are the text after the first
\* separator, and onStructuredData got the fields parsed from the text before
\* it, however the text was cut into chunks
C2_SeparatorSplitsStream ==
    (EndedWithoutFailure /\ IndexOf(text, separator) # -1) =>
        LET at == IndexOf(text, separator)
        IN  /\ ExplanationText = SubstringFrom(text, at + Len(separator))
            /\ StructuredCalls = <<StructuredCall(ParseHeader(Substring(text, 0, at)))>>

\* the number of tokens in the first k chunks
DeliveredUpTo(k) == Len(Concat(SubSeq(delivered, 1, k)))

\* a cut between two chunks fell inside the first separator, a header field
\* was parsed and there is explanation text
C2_Witness ==
    /\ pc = "done" /\ ~threw
    /\ IndexOf(text, separator) # -1
    /\ \E k \in 1..(Len(delivered) - 1) :
         /\ IndexOf(text, separator) < DeliveredUpTo(k)
         /\ DeliveredUpTo(k) < IndexOf(text, separator) + Len(separator)
    /\ ExplanationText # <<>>
    /\ Len(StructuredCalls) = 1
    /\ StructuredCalls[1].data # ParseHeader(<<>>)

\* C3: onStructuredData is called at most once, and once the separator has
\* been found every further non-empty chunk is forwarded as it is, in one
\* onExplanationChunk call
C3_DelimiterConsumedOnce ==
    [][/\ Len(SelectSeq(calls', LAMBDA c : c.kind = "onStructuredData")) <= 1
       /\ (headersParsed /\ delivered' # delivered) =>
             calls' = Append(calls, ExplanationCall(delivered'[Len(delivered')]))]_vars

\* a chunk that holds the separator again was forwarded after the separator
\* had been found in an earlier chunk
C3_Witness ==
    /\ headersParsed
    /\ Len(delivered) >= 2
    /\ IndexOf(delivered[Len(delivered)], separator) # -1
    /\ calls # <<>>
    /\ calls[Len(calls)] = ExplanationCall(delivered[Len(delivered)])
    /\ Len(StructuredCalls) = 1

\* the trimmed text of the lines after the first line that starts with
\* correctedSentence:, or nothing when there is no such line or no line after it
AfterCorrectedLine(t) ==
    LET starts == {i \in LineStarts(t) : t[i] = CORR}
    IN  IF starts = {} THEN <<>>
        ELSE LET first == CHOOSE i \in starts : \A j \in starts : i <= j
                 breaks == {j \in first..Len(t) : t[j] = NL}
             IN  IF breaks = {} THEN <<>>
                 ELSE LET b == CHOOSE i \in breaks : \A j \in breaks : i <= j
                      IN  Trim(SubSeq(t, b + 1, Len(t)))

\* C4: a stream that does not fail, whose text is not empty and holds no
\* separator, gives exactly one onStructuredData call with the fields parsed
\* from the whole text, followed by one onExplanationChunk call with the
\* trimmed text after the correctedSentence line, or by none when that is empty
C4_FallbackWithoutSeparator ==
    (EndedWithoutFailure /\ text # <<>> /\ IndexOf(text, separator) = -1) =>
        calls = <<StructuredCall(ParseHeader(text))>>
                \o (IF AfterCorrectedLine(text) # <<>>
                      THEN <<ExplanationCall(AfterCorrectedLine(text))>> ELSE <<>>)
                \o <<StreamEndCall>>

\* the fallback found a correctedSentence line and explanation text after it
C4_Witness ==
    /\ pc = "done" /\ ~threw
    /\ IndexOf(text, separator) = -1
    /\ Len(StructuredCalls) = 1
    /\ StructuredCalls[1].data.correctedSentence # DefaultCorrectedSentence
    /\ Len(ExplanationChunks) = 1
    /\ Len(delivered) >= 2

\* C5: when the request or the iteration throws, exactly one
\* onExplanationChunk call carries the error message, nothing but onStreamEnd
\* is called after it, and the returned promise resolves when onStreamEnd does
C5_FailureShowsErrorOnly ==
    [][/\ (~threw /\ threw') =>
             /\ \A i \in 1..Len(calls) : calls[i] # ExplanationCall(ErrorMessage)
             /\ calls' = calls \o <<ExplanationCall(ErrorMessage), StreamEndCall>>
       /\ threw => calls' = calls
       /\ (threw' /\ streamEndOutcome' = "resolved") => promise' = "resolved"]_vars

\* a stream that failed after the header had been handed over, and whose
\* promise resolved
C5_Witness ==
    /\ threw /\ pc = "done"
    /\ promise = "resolved"
    /\ Len(StructuredCalls) = 1


\* the positions of the onStreamEnd calls
StreamEndCalls == {i \in 1..Len(calls) : calls[i] = StreamEndCall}

\* C13: onStreamEnd is not called while the request or the stream is being
\* awaited; once the try block has ended, by success or by failure, it has
\* been called exactly once, and it is the last callback of the evaluation
C13_StreamEndOnceAndLast ==
    /\ pc \in {"request", "iterate"} => StreamEndCalls = {}
    /\ pc \in {"streamEnd", "done"} => StreamEndCalls = {Len(calls)}

\* a stream that failed after its header and a chunk of explanation:
\* onStreamEnd follows the structured data, the chunk and the error message
C13_Witness ==
    /\ pc = "done"
    /\ threw
    /\ Len(StructuredCalls) = 1
    /\ Len(ExplanationChunks) = 2
    /\ Len(calls) = 4
    /\ calls[4] = StreamEndCall

(***************************************************************************)
(* Properties of the history (HistorySpec, MergeSpec).                     *)
(***************************************************************************)
Min(a, b) == IF a < b THEN a ELSE b

\* the step is a call of addHistoryItem whose setItem succeeded
AddSucceeds == steps' = steps + 1 /\ lastOp' = "add" /\ lastSaved'

\* C6: after a successful addHistoryItem(newItem) the persisted history is
\* newItem followed by the previously persisted items in their order, cut to
\* the first 100
C6_AddCapsByTruncation ==
    [][AddSucceeds =>
         LET old == getHistory(stored)
             new == getHistory(stored')
         IN  /\ stored'.state = "json"
             /\ Len(new) = Min(Len(old) + 1, 100)
             /\ new[1] = lastArg'.item
             /\ \A i \in 2..Len(new) : new[i] = old[i - 1]]_vars

\* an item was added to a full history: the oldest item is gone
C6_Witness ==
    /\ lastOp = "add" /\ lastSaved /\ steps = 1
    /\ Len(getHistory(stored)) = ADD_CAP
    /\ getHistory(stored)[1] = lastArg.item
    /\ \A i \in 1..ADD_CAP : getHistory(stored)[i] # SampleItem(1)
    /\ history[Len(history)] = SampleItem(1)

\* C7 as stated: once App has loaded the history, and as long as every write
\* to localStorage succeeds, the list in memory is the persisted list
C7_MemoryIsPersisted ==
    (mounted /\ ~quotaFailed) => history = getHistory(stored)

\* the step is a call of mergeAndSaveHistory that saved the merged history
MergeSucceeds == steps' = steps + 1 /\ lastOp' = "merge" /\ lastSaved'

\* the valid items of the existing history followed by the imported array
ValidItemsOf(combined) ==
    {combined[i] : i \in {j \in 1..Len(combined) : IsValidItem(combined[j])}}

\* C8: after a successful mergeAndSaveHistory(imported) the persisted and
\* returned history is sorted by timestamp, newest first, and is made of the
\* 200 most recent valid items of the existing and the imported history, one
\* item for each key
C8_MergeSortedAndCapped ==
    [][MergeSucceeds =>
         LET valid == ValidItemsOf(getHistory(stored) \o lastArg'.imported.elems)
             keys == {ItemKey(x) : x \in valid}
             merged == returned'
             kept == {ItemKey(merged[i]) : i \in 1..Len(merged)}
         IN  /\ stored' = Json(merged)
             /\ \A i \in 1..(Len(merged) - 1) :
                   merged[i].timestamp.v >= merged[i + 1].timestamp.v
             /\ Len(merged) = Min(Cardinality(keys), 200)
             /\ \A i \in 1..Len(merged) : merged[i] \in valid
             /\ Cardinality(kept) = Len(merged)
             /\ \A k \in keys \ kept : \A i \in 1..Len(merged) :
                   k[1] <= merged[i].timestamp.v]_vars

\* the merge of a full history with a newer imported item: the imported item
\* is in the result and the oldest existing item is not
C8_Witness ==
    /\ lastOp = "merge" /\ lastSaved
    /\ Len(returned) = MERGE_CAP
    /\ stored = Json(returned)
    /\ returned[1].id = Str(1004)
    /\ \A i \in 1..Len(returned) : returned[i] # SampleItem(1)

\* the existing and the imported items that share a key
SharedKeys(existing, elems) ==
    {ItemKey(x) : x \in ValidItemsOf(existing)} \cap {ItemKey(x) : x \in ValidItemsOf(elems)}

\* the first item of items that has key k
FirstWithKey(items, k) ==
    LET at == {i \in 1..Len(items) : IsValidItem(items[i]) /\ ItemKey(items[i]) = k}
    IN  items[CHOOSE i \in at : \A j \in at : i <= j]

\* C9 as stated: when an existing and an imported item have the same key, the
\* merged history contains the existing item and not the imported one
C9_ExistingKeptOverImported ==
    [][MergeSucceeds =>
         LET existing == getHistory(stored)
             elems == lastArg'.imported.elems
             merged == returned'
         IN  \A k \in SharedKeys(existing, elems) :
               /\ \E i \in 1..Len(merged) : merged[i] = FirstWithKey(existing, k)
               /\ \A i \in 1..Len(merged) :
                     ItemKey(merged[i]) = k => merged[i] = FirstWithKey(existing, k)]_vars

\* C9 as amended: when an existing and an imported item have the same key, the
\* merged history does not contain the imported one: its item of that key, if
\* any, is the existing item, which is missing only when the history is cut to
\* 200 items that are all at least as recent
C9_ImportedNeverReplacesExisting ==
    [][MergeSucceeds =>
         LET existing == getHistory(stored)
             elems == lastArg'.imported.elems
             merged == returned'
         IN  \A k \in SharedKeys(existing, elems) :
               /\ \A i \in 1..Len(merged) :
                     ItemKey(merged[i]) = k => merged[i] = FirstWithKey(existing, k)
               /\ \/ \E i \in 1..Len(merged) : merged[i] = FirstWithKey(existing, k)
                  \/ /\ Len(merged) = 200
                     /\ \A i \in 1..Len(merged) : merged[i].timestamp.v >= k[1]]_vars

\* an imported item with the key of an existing one and another id: the
\* merged history holds the existing item under that key
C9_Witness ==
    /\ lastOp = "merge" /\ lastSaved
    /\ \E j \in 1..Len(lastArg.imported.elems) :
         LET m == lastArg.imported.elems[j]
         IN  /\ m # Null
             /\ m.id = Str(1006)
             /\ \E i \in 1..Len(returned) :
                  /\ ItemKey(returned[i]) = ItemKey(m)
                  /\ returned[i].id # Str(1006)

\* the step is a call of mergeAndSaveHistory
MergeCalled == steps' = steps + 1 /\ lastOp' = "merge"

\* C10: when mergeAndSaveHistory is given no array, or merging throws (a null
\* element, a failing setItem), the persisted history is left as it is and the
\* existing history is returned
C10_MergeFailureKeepsHistory ==
    [][MergeCalled =>
         LET given == lastArg'.imported
             fails == \/ ~given.isArray
                      \/ \E i \in 1..Len(given.elems) : given.elems[i] = Null
                      \/ ~lastSaved'
         IN  fails => /\ ~lastSaved'
                      /\ stored' = stored
                      /\ returned' = getHistory(stored)]_vars

\* an array with a null element and a valid new item was imported into a
\* history that is not empty: the history is returned as it was
C10_Witness ==
    /\ lastOp = "merge" /\ ~lastSaved /\ ~quotaFailed
    /\ lastArg.imported.isArray
    /\ \E i, j \in 1..Len(lastArg.imported.elems) :
         /\ lastArg.imported.elems[i] = Null
         /\ lastArg.imported.elems[j] # Null
         /\ lastArg.imported.elems[j].id = Str(1004)
    /\ Len(returned) = MERGE_CAP
    /\ returned = getHistory(stored)


(***************************************************************************)
(* Properties of the task fetches (AppSpec).                               *)
(***************************************************************************)
\* C11: when loading the grammar data fails, the task function goes on to its
\* request with grammarPoint undefined, so that it still returns a task, and
\* the handler that called it is not sent to its catch block
C11_ProceedsWithoutGrammar ==
    [][appOp' = "GrammarFails" =>
         /\ error' = error
         /\ gameState' = gameState
         /\ \E i \in 1..Len(fetches) :
              /\ fetches[i].pc = "grammar"
              /\ fetches' = [fetches EXCEPT ![i] =
                               [@ EXCEPT !.pc = "generate", !.grammarPoint = Undefined]]]_vars

\* C17: after handleGoHome, and until the next action of the user, the app is
\* on the Welcome screen with no task and no error, whatever the task fetches
\* started before do
C17_HomeIsStable ==
    afterHome =>
        /\ gameState = GameState_Welcome
        /\ currentTask = Null
        /\ mcqTask = Null
        /\ error = NoError


(***************************************************************************)
(* Properties of an evaluation (FeedbackSpec).                             *)
(***************************************************************************)
\* onStreamEnd has been called
StreamEndCalled == \E i \in 1..Len(calls) : calls[i] = StreamEndCall

\* C12: onComplete is called at most once, not before onStreamEnd has been
\* called, and exactly once by the time evaluateSentenceStream has settled:
\* after a stream that succeeded or failed, after a speech generation that
\* failed, on the feedback screen or after the user has left it; and every
\* call of onComplete adds one translation item, the first of the history
C12_OnCompleteOnce ==
    /\ Len(completions) <= 1
    /\ completions # <<>> => StreamEndCalled
    /\ pc = "done" => Len(completions) = 1
    /\ steps = Len(completions)
    /\ Len(history) = Len(FeedbackHistory) + Len(completions)
    /\ completions # <<>> =>
         /\ history[1].gameMode = GameMode_Translation
         /\ history[1].id = Str(0 - 1)
         /\ SubSeq(history, 2, Len(history)) = FeedbackHistory
         /\ lastSaved => getHistory(stored) = history

\* the stream failed after its header, speech generation failed, and the user
\* had left the feedback screen: onComplete has been called once
C12_Witness ==
    /\ pc = "done"
    /\ threw
    /\ speech = "rejected"
    /\ gameState = GameState_Welcome
    /\ currentTask = Null
    /\ Len(completions) = 1
    /\ Len(history) = Len(FeedbackHistory) + 1

\* the fields onStructuredData was called with, or the defaults
StructuredOrDefaults ==
    IF StructuredCalls # <<>> THEN StructuredCalls[1].data
    ELSE [score |-> 0, evaluation |-> DefaultEvaluation,
          correctedSentence |-> DefaultCorrectedSentence]

\* C14: on the success path (the stream and the speech generation did not
\* fail) the Feedback passed to onComplete has the fields onStructuredData was
\* called with, or the defaults when it was never called, and the payloads of
\* all onExplanationChunk calls, joined in order, as its explanation
C14_FeedbackFromCallbacks ==
    (completions # <<>> /\ ~threw /\ speech # "rejected") =>
        completions[1].feedback =
            [score |-> StructuredOrDefaults.score,
             evaluation |-> StructuredOrDefaults.evaluation,
             correctedSentence |-> StructuredOrDefaults.correctedSentence,
             explanation |-> ExplanationText]


(***************************************************************************)
(* Properties of the header fields (HeaderSpec).                           *)
(***************************************************************************)
\* the header a parser path has read its fields from
ParsedHeader ==
    IF pc = "loop" THEN Substring(buffer, 0, IndexOf(buffer, separator)) ELSE buffer

\* the first element of a non-empty set of line numbers
FirstLine(S) == CHOOSE i \in S : \A j \in S : i <= j

\* the fields when each expression is applied to one line at a time: the
\* first line it matches gives the value, no such line gives the default
FieldsLineByLine(h) ==
    LET ls == SplitLines(h)
        scoreLines == {i \in 1..Len(ls) : scoreMatch(ls[i]) # <<>>}
        evaluationLines == {i \in 1..Len(ls) : LabelMatch(ls[i], EVAL).matched}
        correctedLines == {i \in 1..Len(ls) : LabelMatch(ls[i], CORR).matched}
    IN  [score |-> IF scoreLines = {} THEN 0
                   ELSE ParseInt(scoreMatch(ls[FirstLine(scoreLines)])),
         evaluation |-> IF evaluationLines = {} THEN DefaultEvaluation
                        ELSE Trim(LabelMatch(ls[FirstLine(evaluationLines)], EVAL).group),
         correctedSentence |->
             IF correctedLines = {} THEN DefaultCorrectedSentence
             ELSE Trim(LabelMatch(ls[FirstLine(correctedLines)], CORR).group)]

\* C15: in the loop and in the fallback, the fields handed to
\* onStructuredData are those of the header read line by line: each field has
\* the value parsed from its own line, or its default when no line gives it
C15_FieldsFromOwnLines ==
    (pc \in {"loop", "fallback"} /\ StructuredCalls # <<>>) =>
        StructuredCalls[1].data = FieldsLineByLine(ParsedHeader)

\* C16: the score handed to onStructuredData is an integer from 0 to 100
C16_ScoreWithinHundred ==
    \A i \in 1..Len(StructuredCalls) : StructuredCalls[i].data.score \in 0..100


(***************************************************************************)
(* Properties of historyService (ServiceSpec).                             *)
(***************************************************************************)
\* the step is a call of op whose setItem succeeded
ServiceCallSaved(op) == steps' = steps + 1 /\ lastOp' = op /\ lastSaved'

\* C18: after a successful updateHistoryItem(updated) the persisted history
\* has the same length, holds updated at every position whose item had
\* updated's id and the same item as before at every other position; when no
\* item had that id, the history is as it was and updated is not in it
C18_UpdateReplacesById ==
    [][ServiceCallSaved("update") =>
         LET old == getHistory(stored)
             new == getHistory(stored')
             updated == lastArg'.item
         IN  /\ stored'.state = "json"
             /\ Len(new) = Len(old)
             /\ \A i \in 1..Len(old) :
                   new[i] = IF old[i].id = updated.id THEN updated ELSE old[i]
             /\ (\A i \in 1..Len(old) : old[i].id # updated.id) =>
                   /\ new = old
                   /\ \A i \in 1..Len(new) : new[i] # updated]_vars

\* an item was deleted and then updated by the card that was still
\* generating its audio: the history does not hold it, the others are there
C18_Witness ==
    /\ steps = 2
    /\ lastOp = "update" /\ lastSaved
    /\ lastArg.item.id = Str(3)
    /\ getHistory(stored) = <<SampleItem(1)>>

\* the sequences that hold every element of the set ids once
Orders(ids) ==
    {p \in [1..Cardinality(ids) -> ids] : \A i, j \in 1..Cardinality(ids) :
                                             p[i] = p[j] => i = j}

\* deleteHistoryItem applied to each id of the sequence p in turn
RECURSIVE DeleteEach(_, _)
DeleteEach(st, p) ==
    IF p = <<>> THEN st
    ELSE DeleteEach(deleteHistoryItem(st, Head(p), TRUE), Tail(p))

\* C19: after a successful deleteMultipleHistoryItems(ids) the persisted
\* history is the one before without the items whose id is in ids, the others
\* in their order; it is the history that deleteHistoryItem leaves when it is
\* applied once for each id, in any order; and when no item has an id of ids
\* the history is as it was
C19_DeleteMultipleIsDeleteEach ==
    [][ServiceCallSaved("deleteMultiple") =>
         LET old == getHistory(stored)
             new == getHistory(stored')
             ids == lastArg'.ids
         IN  /\ stored'.state = "json"
             /\ new = SelectSeq(old, LAMBDA item : item.id \notin ids)
             /\ \A p \in Orders(ids) : getHistory(DeleteEach(stored, p)) = new
             /\ (\A i \in 1..Len(old) : old[i].id \notin ids) => new = old]_vars

\* two ids, one of two items and one of no item, were deleted from a history
\* of three items: one item is left
C19_Witness ==
    /\ steps = 1
    /\ lastOp = "deleteMultiple" /\ lastSaved
    /\ lastArg.ids = {Str(3), MissingId}
    /\ getHistory(stored) = <<SampleItem(1)>>

=============================================================================
